---- MODULE Spec2Model ----
(***************************************************************************)
(* Booli MCP server: the three tool handlers (search_properties,           *)
(* search_locations, get_property_details) and the GraphQL client they     *)
(* call (BooliGraphQLClient: buildSearchInput, searchForSale,              *)
(* searchLocations, getPropertyDetails).                                   *)
(*                                                                         *)
(* Strings are sequences of tokens.  A caller-supplied string is a         *)
(* sequence of single characters drawn from Char; a text literal of the    *)
(* source is one token (split at its double quotes, which are tokens of    *)
(* their own); a string of the upstream response is one token.             *)
(* JavaScript values are records [t, n, s] (type tag, number, string).     *)
(* The pictographs and bullet characters of the source's literals are      *)
(* left out of the tokens; a bullet is written as an asterisk.            *)
(***************************************************************************)
EXTENDS Integers, Sequences, FiniteSets, TLC

VARIABLES calls, wiring

vars == <<calls, wiring>>

(***************************************************************************)
(* Bounds of the model                                                     *)
(***************************************************************************)
MaxStrLen == 2
MaxLimit == 2
MaxResults == 11
MaxTotal == 12
MaxSetFields == 2
NumSlots == 2

(***************************************************************************)
(* JavaScript values                                                       *)
(***************************************************************************)
Undef == [t |-> "undefined", n |-> 0, s |-> <<>>]
Null == [t |-> "null", n |-> 0, s |-> <<>>]
Num(k) == [t |-> "number", n |-> k, s |-> <<>>]
Str(x) == [t |-> "string", n |-> 0, s |-> x]
Bool(b) == [t |-> "boolean", n |-> IF b THEN 1 ELSE 0, s |-> <<>>]
\* an array of strings
List(x) == [t |-> "list", n |-> 0, s |-> x]

\* ToBoolean: undefined, null, 0, "" and false are falsy
Truthy(v) == \/ v.t = "number" /\ v.n # 0
             \/ v.t = "string" /\ v.s # <<>>
             \/ v.t = "boolean" /\ v.n = 1
             \/ v.t = "list"

DigitChar == <<"0", "1", "2", "3", "4", "5", "6", "7", "8", "9">>
DigitSet == {DigitChar[i] : i \in 1..10}

RECURSIVE NatToStr(_)
\* Number.prototype.toString of a non-negative integer: its decimal digits
NatToStr(k) == IF k < 10 THEN <<DigitChar[k + 1]>>
               ELSE NatToStr(k \div 10) \o <<DigitChar[(k % 10) + 1]>>

\* the decimal form of an integer
IntToStr(k) == IF k < 0 THEN <<"-">> \o NatToStr(0 - k) ELSE NatToStr(k)

\* `${v}` : template-literal interpolation (ToString)
Interp(v) == CASE v.t = "string" -> v.s
               [] v.t = "number" -> IntToStr(v.n)
               [] v.t = "boolean" -> <<IF v.n = 1 THEN "true" ELSE "false">>
               [] v.t = "null" -> <<"null">>
               [] v.t = "list" -> v.s
               [] OTHER -> <<"undefined">>

\* v.toString(): a TypeError on null and undefined
ToStringThrows(v) == v.t \in {"null", "undefined"}
ToStringOf(v) == IF v.t = "string" THEN v ELSE Str(Interp(v))

Whitespace == {" "}

RECURSIVE TrimStart(_)
TrimStart(s) == IF s # <<>> /\ Head(s) \in Whitespace THEN TrimStart(Tail(s)) ELSE s

RECURSIVE TrimEnd(_)
TrimEnd(s) == IF s # <<>> /\ s[Len(s)] \in Whitespace
              THEN TrimEnd(SubSeq(s, 1, Len(s) - 1)) ELSE s

\* String.prototype.trim
Trim(s) == TrimEnd(TrimStart(s))

\* /^\d+$/.test(s)
IsDigits(s) == s # <<>> /\ \A i \in 1..Len(s) : s[i] \in DigitSet

\* Array.prototype.slice(0, n) for a non-negative integer n
Slice(list, k) == SubSeq(list, 1, IF k < Len(list) THEN k ELSE Len(list))

\* String.prototype.includes on token sequences: pat occurs contiguously in text
Includes(text, pat) ==
  \E i \in 1..(Len(text) - Len(pat) + 1) : SubSeq(text, i, i + Len(pat) - 1) = pat

\* Errors: isErr is `instanceof Error`; msg is error.message (the thrown value otherwise)
ErrorOf(m) == [isErr |-> TRUE, msg |-> m]
NonError(m) == [isErr |-> FALSE, msg |-> m]
NoErr == [isErr |-> FALSE, msg |-> <<>>]
TypeErrorOf(what) == ErrorOf(<<what>>)

(***************************************************************************)
(* Criteria Normalizer: BooliGraphQLClient.buildSearchInput                *)
(***************************************************************************)
CriteriaFields ==
  <<"location", "minPrice", "maxPrice", "minRooms", "maxRooms", "minArea", "maxArea",
    "propertyType", "minPricePerSqm", "maxPricePerSqm", "minPlotArea", "maxPlotArea",
    "minConstructionYear", "maxConstructionYear", "maxRent", "daysActive",
    "amenities", "floor", "showOnly">>
CriteriaFieldSet == {CriteriaFields[i] : i \in 1..Len(CriteriaFields)}

\* criteria field -> filter key, in the order of the if-statements
BasicNumeric ==
  << <<"minPrice", "minListPrice">>, <<"maxPrice", "maxListPrice">>,
     <<"minRooms", "minRooms">>, <<"maxRooms", "maxRooms">>,
     <<"minArea", "minLivingArea">>, <<"maxArea", "maxLivingArea">> >>
ExtendedNumeric ==
  << <<"minPricePerSqm", "minListSqmPrice">>, <<"maxPricePerSqm", "maxListSqmPrice">>,
     <<"minPlotArea", "minPlotArea">>, <<"maxPlotArea", "maxPlotArea">>,
     <<"minConstructionYear", "minConstructionYear">>,
     <<"maxConstructionYear", "maxConstructionYear">>,
     <<"maxRent", "maxRent">>, <<"daysActive", "daysActive">> >>
PassThrough == <<"amenities", "floor", "showOnly">>

NumericTable == BasicNumeric \o ExtendedNumeric
NumericFieldSet == {NumericTable[i][1] : i \in 1..Len(NumericTable)}
KeyOf(f) == CHOOSE i \in 1..Len(NumericTable) : NumericTable[i][1] = f
FilterKeyOf(f) == NumericTable[KeyOf(f)][2]

FilterPair(k, v) == [key |-> k, value |-> v]

\* criteria.x !== undefined
IsPresent(v) == v.t # "undefined"

\* the mutant of IsSet: presence by the not-undefined check
IsSetDefined(v) == v.t # "undefined"
\* if (criteria.x) : the truthiness test of amenities, floor, showOnly and location
IsSet(v) == Truthy(v)

RECURSIVE NumericPairs(_, _)
\* if (criteria.f !== undefined) filters.push({ key, value: criteria.f.toString() })
NumericPairs(criteria, table) ==
  IF table = <<>> THEN <<>>
  ELSE (IF IsPresent(criteria[Head(table)[1]])
        THEN <<FilterPair(Head(table)[2], ToStringOf(criteria[Head(table)[1]]))>>
        ELSE <<>>) \o NumericPairs(criteria, Tail(table))

\* some criteria.f.toString() is called on null: a TypeError
NumericThrows(criteria, table) ==
  \E i \in 1..Len(table) :
    IsPresent(criteria[table[i][1]]) /\ ToStringThrows(criteria[table[i][1]])

\* property type mapping to Swedish terms
TypePairs(criteria) ==
  IF criteria["propertyType"] = Str(<<"apartment">>)
  THEN <<FilterPair("objectType", Str(<<"Lägenhet">>))>>
  ELSE IF criteria["propertyType"] = Str(<<"house">>)
       THEN <<FilterPair("objectType", Str(<<"Villa">>))>>
       ELSE <<>>

RECURSIVE PassPairs(_, _)
\* if (criteria.f) filters.push({ key: f, value: criteria.f })
PassPairs(criteria, fields) ==
  IF fields = <<>> THEN <<>>
  ELSE (IF IsSet(criteria[Head(fields)])
        THEN <<FilterPair(Head(fields), criteria[Head(fields)])>>
        ELSE <<>>) \o PassPairs(criteria, Tail(fields))

\* the mutant of AreaIdOf: only a location of digits becomes the area reference
AreaIdOfDigitsOnly(criteria) ==
  IF IsSet(criteria["location"]) /\ IsDigits(Interp(criteria["location"]))
  THEN criteria["location"]
  ELSE Undef
\* input.areaId: both branches of the digits test assign criteria.location
AreaIdOf(criteria) ==
  IF IsSet(criteria["location"])
  THEN (IF IsDigits(Interp(criteria["location"]))
        THEN criteria["location"]
        ELSE criteria["location"])
  ELSE Undef

NoInput == [filters |-> <<>>, page |-> 0, ascending |-> FALSE,
            excludeAncestors |-> FALSE, areaId |-> Undef]

\* the mutant of buildSearchInput: the property type pair is pushed after all others
buildSearchInputTypeLast(criteria) ==
  IF NumericThrows(criteria, NumericTable)
  THEN [threw |-> TRUE,
        err |-> TypeErrorOf("Cannot read properties of null (reading 'toString')"),
        input |-> NoInput]
  ELSE [threw |-> FALSE, err |-> NoErr,
        input |-> [filters |-> NumericPairs(criteria, BasicNumeric)
                                 \o NumericPairs(criteria, ExtendedNumeric)
                                 \o PassPairs(criteria, PassThrough)
                                 \o TypePairs(criteria),
                   page |-> 1,
                   ascending |-> FALSE,
                   excludeAncestors |-> TRUE,
                   areaId |-> AreaIdOf(criteria)]]
\* buildSearchInput: [threw, err, input]
buildSearchInput(criteria) ==
  IF NumericThrows(criteria, NumericTable)
  THEN [threw |-> TRUE,
        err |-> TypeErrorOf("Cannot read properties of null (reading 'toString')"),
        input |-> NoInput]
  ELSE [threw |-> FALSE, err |-> NoErr,
        input |-> [filters |-> NumericPairs(criteria, BasicNumeric)
                                 \o TypePairs(criteria)
                                 \o NumericPairs(criteria, ExtendedNumeric)
                                 \o PassPairs(criteria, PassThrough),
                   page |-> 1,
                   ascending |-> FALSE,
                   excludeAncestors |-> TRUE,
                   areaId |-> AreaIdOf(criteria)]]

(***************************************************************************)
(* Query Compiler: the template literals of searchForSale, searchLocations *)
(***************************************************************************)
Quote == "\""

BoolStr(b) == IF b THEN "true" ELSE "false"

\* the mutant of FilterStr: a double quote of the value is escaped
FilterStrEscaped(f) ==
  <<"{ key: ", Quote, f.key, Quote, ", value: ", Quote>>
  \o [i \in 1..Len(Interp(f.value)) |->
        IF Interp(f.value)[i] = Quote THEN "\\\"" ELSE Interp(f.value)[i]]
  \o <<Quote, " }">>
\* `{ key: "${filter.key}", value: "${filter.value}" }`
FilterStr(f) ==
  <<"{ key: ", Quote, f.key, Quote, ", value: ", Quote>> \o Interp(f.value) \o <<Quote, " }">>

RECURSIVE JoinFilters(_)
\* filters.map(...).join(', ')
JoinFilters(filters) ==
  IF filters = <<>> THEN <<>>
  ELSE IF Len(filters) = 1 THEN FilterStr(filters[1])
       ELSE FilterStr(Head(filters)) \o <<", ">> \o JoinFilters(Tail(filters))

\* the mutant of AreaIdStr: the field is rendered whether or not there is an area
AreaIdStrAlways(input) == <<"areaId: ", Quote>> \o Interp(input.areaId) \o <<Quote>>
\* ${searchInput.areaId ? `areaId: "${searchInput.areaId}"` : ''}
AreaIdStr(input) ==
  IF Truthy(input.areaId) THEN <<"areaId: ", Quote>> \o Interp(input.areaId) \o <<Quote>>
  ELSE <<>>

SearchQuery(input) ==
  <<"query searchCount { searchForSale( input: { filters: [">>
  \o JoinFilters(input.filters) \o <<"] ">>
  \o AreaIdStr(input)
  \o <<" page: ">> \o NatToStr(input.page)
  \o <<" ascending: ", BoolStr(input.ascending)>>
  \o <<" excludeAncestors: ", BoolStr(input.excludeAncestors)>>
  \o <<" } ) { totalCount result { ... on Property ... on Listing } } }">>

\* the mutant of LocationQuery: a double quote of the search text is escaped
LocationQueryEscaped(criteria) ==
  <<"query areaSuggestionSearch { areaSuggestionSearch(search: ", Quote>>
  \o [i \in 1..Len(Interp(criteria.query)) |->
        IF Interp(criteria.query)[i] = Quote THEN "\\\"" ELSE Interp(criteria.query)[i]]
  \o <<Quote, ") { suggestions { id displayName parent parentType parentDisplayName parentTypeDisplayName parentId } } }">>

LocationQuery(criteria) ==
  <<"query areaSuggestionSearch { areaSuggestionSearch(search: ", Quote>>
  \o Interp(criteria.query)
  \o <<Quote, ") { suggestions { id displayName parent parentType parentDisplayName parentTypeDisplayName parentId } } }">>

(***************************************************************************)
(* Promise outcomes and response shapes                                    *)
(*   kind   "resolve" | "reject"                                           *)
(*   data   [shape, totalCount, result]                                    *)
(*   shape  "list"      the result list is an array                        *)
(*          "noResult"  the result list is missing (undefined) or null     *)
(*          "noSearch"  the searchForSale / areaSuggestionSearch object    *)
(*                      itself is missing                                  *)
(***************************************************************************)
NoData == [shape |-> "noSearch", totalCount |-> 0, result |-> <<>>]
Resolve(d) == [kind |-> "resolve", err |-> NoErr, data |-> d]
Reject(e) == [kind |-> "reject", err |-> e, data |-> NoData]
NoOutcome == [kind |-> "none", err |-> NoErr, data |-> NoData]

\* envelope { content: [{type: 'text', text}], isError }; isError FALSE: the key is absent
Envelope(texts, flag) == [content |-> texts, isError |-> flag]
NoEnvelope == Envelope(<<>>, FALSE)

\* what a function body does: return an envelope or throw
Returns(env) == [threw |-> FALSE, err |-> NoErr, env |-> env]
Throws(e) == [threw |-> TRUE, err |-> e, env |-> NoEnvelope]

(***************************************************************************)
(* Entries of the upstream result list: a field that is missing or null is *)
(* Undef / Null.  Nested fields are flattened: roomsFormatted is           *)
(* property.rooms?.formatted, agencyName is property.agency?.name, ...     *)
(***************************************************************************)
EntryFieldSet ==
  {"id", "objectType", "streetAddress", "descriptiveAreaName", "municipalityName",
   "roomsFormatted", "livingAreaFormatted", "plotAreaFormatted", "listPriceFormatted",
   "listSqmPriceFormatted", "estimateFormatted", "rentFormatted", "floor",
   "daysActive", "published", "tenureForm", "constructionYear", "isNewConstruction",
   "amenities", "dataPoints", "listPricePercentageDiff", "biddingOpen", "upcomingSale",
   "primaryImage", "primaryImageAlt", "primaryImageUrl", "blockedImages",
   "agencyName", "agencyUrl", "agencyThumbnail",
   "nextShowing", "url", "latitude", "longitude"}

Entry(given) == [f \in EntryFieldSet |-> IF f \in DOMAIN given THEN given[f] ELSE Undef]

\* if (property.f) description += label + property.f
LineIf(e, f, label) == IF Truthy(e[f]) THEN <<label>> \o Interp(e[f]) ELSE <<>>
\* if (property.f) description += label
FlagIf(e, f, label) == IF Truthy(e[f]) THEN <<label>> ELSE <<>>
\* if (property.f !== undefined) description += label + property.f
LineIfDefined(e, f, label) == IF e[f].t # "undefined" THEN <<label>> \o Interp(e[f]) ELSE <<>>

RECURSIVE JoinTokens(_, _)
\* Array.prototype.join
JoinTokens(list, sep) ==
  IF list = <<>> THEN <<>>
  ELSE IF Len(list) = 1 THEN <<list[1]>>
       ELSE <<Head(list), sep>> \o JoinTokens(Tail(list), sep)

AmenitiesLine(e, label, sep) ==
  IF Truthy(e["amenities"]) /\ Len(e["amenities"].s) > 0
  THEN <<label>> \o JoinTokens(e["amenities"].s, sep) ELSE <<>>

DataPointsLine(e, label) ==
  IF Truthy(e["dataPoints"]) /\ Len(e["dataPoints"].s) > 0
  THEN <<label>> \o JoinTokens(e["dataPoints"].s, " * ") ELSE <<>>

PriceChangeLine(e, label) ==
  IF e["listPricePercentageDiff"].t \notin {"null", "undefined"}
  THEN <<IF e["listPricePercentageDiff"].n > 0 THEN "\n   (up)" ELSE "\n   (down)", label>>
       \o (IF e["listPricePercentageDiff"].n > 0 THEN <<"+">> ELSE <<>>)
       \o Interp(e["listPricePercentageDiff"]) \o <<"%">>
  ELSE <<>>

ImageLines(e) ==
  (IF Truthy(e["primaryImage"])
   THEN <<"\n   Image: ">> \o (IF Truthy(e["primaryImageAlt"])
                               THEN Interp(e["primaryImageAlt"]) ELSE <<"Available">>)
   ELSE <<>>)
  \o (IF e["blockedImages"] = Bool(FALSE) THEN <<"\n   Images: Available">>
      ELSE IF e["blockedImages"] = Bool(TRUE) THEN <<"\n   Images: Blocked">> ELSE <<>>)

AgencyLines(e) ==
  IF Truthy(e["agencyName"])
  THEN <<"\n   Agency: ">> \o Interp(e["agencyName"])
       \o LineIf(e, "agencyUrl", "\n   Agency: ")
       \o FlagIf(e, "agencyThumbnail", "\n   Agency Logo: Available")
  ELSE <<>>

CoordinatesLine(e, label) ==
  IF Truthy(e["latitude"]) /\ Truthy(e["longitude"])
  THEN <<label>> \o Interp(e["latitude"]) \o <<", ">> \o Interp(e["longitude"]) ELSE <<>>

IdMarker == " - ID: "

\* the callback of properties.map in searchProperties
PropertyDescription(e, index) ==
  IntToStr(index) \o <<". ">>
  \o (IF Truthy(e["objectType"]) THEN Interp(e["objectType"]) ELSE <<"Property">>)
  \o <<IdMarker>> \o Interp(e["id"])
  \o LineIf(e, "streetAddress", "\n   Address: ")
  \o LineIf(e, "descriptiveAreaName", "\n   Area: ")
  \o (IF Truthy(e["municipalityName"])
      THEN <<" (">> \o Interp(e["municipalityName"]) \o <<")">> ELSE <<>>)
  \o LineIf(e, "roomsFormatted", "\n   Rooms: ")
  \o LineIf(e, "livingAreaFormatted", "\n   Living Area: ")
  \o LineIf(e, "plotAreaFormatted", "\n   Plot Area: ")
  \o LineIf(e, "listPriceFormatted", "\n   List Price: ")
  \o LineIf(e, "listSqmPriceFormatted", "\n   Price per m2: ")
  \o LineIf(e, "estimateFormatted", "\n   Estimated Value: ")
  \o LineIfDefined(e, "daysActive", "\n   Days Active: ")
  \o LineIf(e, "published", "\n   Published: ")
  \o LineIf(e, "tenureForm", "\n   Tenure: ")
  \o LineIf(e, "constructionYear", "\n   Built: ")
  \o FlagIf(e, "isNewConstruction", "\n   New Construction")
  \o AmenitiesLine(e, "\n   Amenities: ", ", ")
  \o DataPointsLine(e, "\n   Details: ")
  \o PriceChangeLine(e, " Price Change: ")
  \o FlagIf(e, "biddingOpen", "\n   Bidding Open")
  \o FlagIf(e, "upcomingSale", "\n   Upcoming Sale")
  \o ImageLines(e)
  \o AgencyLines(e)
  \o LineIf(e, "nextShowing", "\n   Next Showing: ")
  \o LineIf(e, "url", "\n   View Property: https://www.booli.se")
  \o CoordinatesLine(e, "\n   Coordinates: ")

RECURSIVE PropertyList(_, _)
\* properties.map(...).join('\n\n'), the entries numbered from `from`
PropertyList(properties, from) ==
  IF properties = <<>> THEN <<>>
  ELSE IF Len(properties) = 1 THEN PropertyDescription(properties[1], from)
       ELSE PropertyDescription(Head(properties), from) \o <<"\n\n">>
            \o PropertyList(Tail(properties), from + 1)

(***************************************************************************)
(* BooliGraphQLClient: what each method does once its request has settled  *)
(* with outcome o ("resolve" with the response, "reject" with the error)   *)
(***************************************************************************)
\* `...: ${error instanceof Error ? error.message : 'Unknown error'}`
ClientErrorText(prefix, e) == <<prefix>> \o (IF e.isErr THEN e.msg ELSE <<"Unknown error">>)

\* the mutant of searchForSaleSettle: the cause's message is dropped
searchForSaleSettleNoMessage(o) ==
  IF o.kind = "reject" THEN Reject(ErrorOf(<<"Failed to search properties: ", "Unknown error">>))
  ELSE Resolve(o.data)
\* try { response = await this.client.request(query); return {data: ...} } catch { throw new Error(...) }
searchForSaleSettle(o) ==
  IF o.kind = "reject"
  THEN Reject(ErrorOf(ClientErrorText("Failed to search properties: ", o.err)))
  ELSE Resolve(o.data)

\* the mutant of searchLocationsSettle: the cause is thrown on as it came
searchLocationsSettleUnwrapped(o) ==
  IF o.kind = "reject" THEN Reject(o.err) ELSE Resolve(o.data)

searchLocationsSettle(o) ==
  IF o.kind = "reject"
  THEN Reject(ErrorOf(ClientErrorText("Failed to search locations: ", o.err)))
  ELSE Resolve(o.data)

\* getPropertyDetails of the client: throws, and issues no request
clientGetPropertyDetails(propertyId) ==
  Reject(ErrorOf(<<"Direct property lookup by ID is not supported by Booli's API. Property ID ">>
                 \o propertyId
                 \o <<" cannot be retrieved directly. Please use the search_properties tool with location or other filters to find properties, then reference the detailed information from the search results.">>))

(***************************************************************************)
(* Tool arguments: [present, f]; present is FALSE when the arguments       *)
(* object itself is undefined, f maps every argument name to its value     *)
(***************************************************************************)
ArgFieldSet == CriteriaFieldSet \cup {"limit", "query", "propertyId"}
NoFields == [f \in ArgFieldSet |-> Undef]
Args(given) == [present |-> TRUE,
                f |-> [f \in ArgFieldSet |-> IF f \in DOMAIN given THEN given[f] ELSE Undef]]
MissingArgs == [present |-> FALSE, f |-> NoFields]

DefaultLimit == 10

\* const limit = args.limit || 10
LimitOf(args) == IF Truthy(args.f["limit"]) THEN args.f["limit"] ELSE Num(DefaultLimit)

(***************************************************************************)
(* searchProperties (tool)                                                 *)
(***************************************************************************)
\* const criteria = { location: args.location, minPrice: args.minPrice, ... }
BuildCriteria(args) == [f \in CriteriaFieldSet |-> args.f[f]]

\* the mutant of LocationEcho: a present location is echoed even when it is empty
LocationEchoDefined(criteria) ==
  IF criteria["location"].t # "undefined" THEN Interp(criteria["location"])
  ELSE <<"the specified area">>
\* ${criteria.location || 'the specified area'}
LocationEcho(criteria) ==
  IF Truthy(criteria["location"]) THEN Interp(criteria["location"])
  ELSE <<"the specified area">>

NoMatchText(criteria) ==
  <<"No properties found matching your criteria in ">> \o LocationEcho(criteria) \o <<".">>

ShowingFirst == " (showing first "

\* the summary line of searchProperties
SearchSummary(criteria, limit, totalCount) ==
  <<"Found ">> \o IntToStr(totalCount) \o <<" properties">>
  \o (IF Truthy(criteria["location"]) THEN <<" in ">> \o Interp(criteria["location"]) ELSE <<>>)
  \o (IF limit.n < totalCount THEN <<ShowingFirst>> \o Interp(limit) \o <<")">> ELSE <<>>)
  \o <<":\n\n">>

\* the body of the try block after `await client.searchForSale(criteria)` settled with cr
searchPropertiesFinish(criteria, limit, cr) ==
  IF cr.kind = "reject" THEN Throws(cr.err)
  ELSE IF cr.data.shape = "noSearch"
  THEN Throws(TypeErrorOf("Cannot read properties of undefined (reading 'result')"))
  ELSE IF cr.data.shape = "noResult"
  THEN Throws(TypeErrorOf("Cannot read properties of undefined (reading 'length')"))
  ELSE IF Len(cr.data.result) = 0
  THEN Returns(Envelope(<<NoMatchText(criteria)>>, FALSE))
  ELSE Returns(Envelope(<<SearchSummary(criteria, limit, cr.data.totalCount)
                           \o PropertyList(Slice(cr.data.result, limit.n), 1)>>, FALSE))

ToolErrorText(prefix, e) == <<prefix>> \o (IF e.isErr THEN e.msg ELSE <<"Unknown error occurred">>)

\* the mutant of searchPropertiesCatch: a thrown value that is no Error is thrown on
searchPropertiesCatchErrorsOnly(r) ==
  IF r.threw /\ r.err.isErr
  THEN Returns(Envelope(<<ToolErrorText("Error searching for properties: ", r.err)>>, TRUE))
  ELSE r
\* catch (error) { return { content: [...], isError: true } }
searchPropertiesCatch(r) ==
  IF r.threw
  THEN Returns(Envelope(<<ToolErrorText("Error searching for properties: ", r.err)>>, TRUE))
  ELSE r

(***************************************************************************)
(* searchLocations (tool)                                                  *)
(***************************************************************************)
SuggestionFieldSet ==
  {"id", "displayName", "parent", "parentType", "parentDisplayName",
   "parentTypeDisplayName", "parentId"}
Suggestion(given) ==
  [f \in SuggestionFieldSet |-> IF f \in DOMAIN given THEN given[f] ELSE Undef]

MinQueryLength == 2

\* the mutant of QueryTooShort: the length of the raw query is tested
QueryTooShortRaw(raw, query) == Len(raw) < MinQueryLength
\* query.length === 0 or query.length < 2, query being args.query.trim()
QueryTooShort(raw, query) == Len(query) < MinQueryLength

\* the validation of searchLocations: an error envelope, or NoEnvelope when the query passes
LocationValidation(args) ==
  IF ~Truthy(args.f["query"]) \/ args.f["query"].t # "string"
  THEN Envelope(<< <<"Error: Query parameter is required and must be a non-empty string.">> >>, TRUE)
  ELSE IF Len(Trim(args.f["query"].s)) = 0
  THEN Envelope(<< <<"Error: Search query cannot be empty.">> >>, TRUE)
  ELSE IF QueryTooShort(args.f["query"].s, Trim(args.f["query"].s))
  THEN Envelope(<< <<"Error: Search query must be at least 2 characters long.">> >>, TRUE)
  ELSE NoEnvelope

LocationIdMarker == "** (ID: "

\* the callback of locations.map in searchLocations
LocationDescription(loc, index) ==
  IntToStr(index) \o <<". **">> \o Interp(loc["displayName"]) \o <<LocationIdMarker>>
  \o Interp(loc["id"]) \o <<")">>
  \o (IF Truthy(loc["parent"]) /\ Truthy(loc["parentDisplayName"])
      THEN <<"\n   Located in: ">> \o Interp(loc["parentDisplayName"]) ELSE <<>>)
  \o (IF Truthy(loc["parentTypeDisplayName"])
      THEN <<"\n   Type: ">> \o Interp(loc["parentTypeDisplayName"]) ELSE <<>>)
  \o (IF Truthy(loc["parentId"])
      THEN <<"\n   Parent ID: ">> \o Interp(loc["parentId"]) ELSE <<>>)
  \o <<"\n   Use this ID (">> \o Interp(loc["id"])
  \o <<") for property searches in this area">>

RECURSIVE LocationList(_, _)
LocationList(locations, from) ==
  IF locations = <<>> THEN <<>>
  ELSE IF Len(locations) = 1 THEN LocationDescription(locations[1], from)
       ELSE LocationDescription(Head(locations), from) \o <<"\n\n">>
            \o LocationList(Tail(locations), from + 1)

UsageHint ==
  "\n\n**How to use these results:**\n* Copy the ID number to use in property searches\n* Example: search_properties with location=\"509\" for Ektorp\n* Larger areas (like municipalities) will show more properties"

\* the mutant of NoLocationsEnvelope: the empty answer is reported as an error
NoLocationsEnvelopeAsError(query) ==
  Envelope(<< <<"Error searching for locations: No locations found matching ", Quote>>
              \o query \o <<Quote>> >>, TRUE)

\* the envelope returned when suggestions.length is 0
NoLocationsEnvelope(query) ==
  Envelope(<< <<"No locations found matching ", Quote>> \o query
              \o <<Quote, ". Try a different search term or check the spelling.">> >>, FALSE)

\* the body of the try block after `await client.searchLocations({ query })` settled with cr
searchLocationsFinish(query, limit, cr) ==
  IF cr.kind = "reject" THEN Throws(cr.err)
  ELSE IF cr.data.shape = "noSearch"
  THEN Throws(TypeErrorOf("Cannot read properties of undefined (reading 'suggestions')"))
  ELSE IF cr.data.shape = "noResult"
  THEN Throws(TypeErrorOf("Cannot read properties of undefined (reading 'length')"))
  ELSE IF Len(cr.data.result) = 0
  THEN Returns(NoLocationsEnvelope(query))
  ELSE Returns(Envelope(<< <<"Found ">> \o IntToStr(Len(cr.data.result))
                           \o <<" location suggestions for ", Quote>> \o query \o <<Quote>>
                           \o (IF limit.n < Len(cr.data.result)
                               THEN <<ShowingFirst>> \o Interp(limit) \o <<")">> ELSE <<>>)
                           \o <<":\n\n">>
                           \o LocationList(Slice(cr.data.result, limit.n), 1)
                           \o <<UsageHint>> >>, FALSE))

\* the mutant of searchLocationsCatch: the usage hint is added as a second block
searchLocationsCatchWithHint(r) ==
  IF r.threw
  THEN Returns(Envelope(<<ToolErrorText("Error searching for locations: ", r.err),
                          <<UsageHint>> >>, TRUE))
  ELSE r
\* catch (error) { return { content: [...], isError: true } }
searchLocationsCatch(r) ==
  IF r.threw
  THEN Returns(Envelope(<<ToolErrorText("Error searching for locations: ", r.err)>>, TRUE))
  ELSE r

(***************************************************************************)
(* getPropertyDetails (tool)                                               *)
(***************************************************************************)
\* the mutant of PropertyIdValidation: the digit test is left out
PropertyIdValidationNoDigits(args) ==
  IF ~Truthy(args.f["propertyId"]) \/ args.f["propertyId"].t # "string"
  THEN Envelope(<< <<"Error: Property ID parameter is required and must be a non-empty string.">> >>, TRUE)
  ELSE IF Len(Trim(args.f["propertyId"].s)) = 0
  THEN Envelope(<< <<"Error: Property ID cannot be empty.">> >>, TRUE)
  ELSE NoEnvelope

\* the validation of getPropertyDetails: an error envelope, or NoEnvelope when the id passes
PropertyIdValidation(args) ==
  IF ~Truthy(args.f["propertyId"]) \/ args.f["propertyId"].t # "string"
  THEN Envelope(<< <<"Error: Property ID parameter is required and must be a non-empty string.">> >>, TRUE)
  ELSE IF Len(Trim(args.f["propertyId"].s)) = 0
  THEN Envelope(<< <<"Error: Property ID cannot be empty.">> >>, TRUE)
  ELSE IF ~IsDigits(Trim(args.f["propertyId"].s))
  THEN Envelope(<< <<"Error: Property ID must be a numeric value (e.g., ", Quote, "12345", Quote, ").">> >>, TRUE)
  ELSE NoEnvelope

LimitationTitle == "**Property Detail Limitation**\n\n"

\* the text returned by the inner catch around client.getPropertyDetails
LimitationText(propertyId) ==
  <<LimitationTitle, "Unfortunately, direct property lookup by ID (">> \o propertyId
  \o <<") is not supported by Booli's GraphQL API. The API requires location-based searches with additional filters.\n\n**Alternative Approach:**\n1. Use the search_locations tool to find area IDs for your target location\n2. Use the search_properties tool with location filters to find properties\n3. The search results include detailed information for each property\n\n**Pro Tip:** Property search results already contain comprehensive details including:\n* Property specifications (rooms, area, price)\n* Location information and coordinates\n* Agency details and contact information\n* Amenities and property features\n* Direct links to view on Booli.se\n\nThis approach provides the same detailed information through the search functionality.">>

\* if (property.f) details += label + property.f + '\n'
DetailLine(e, f, label) == IF Truthy(e[f]) THEN <<label>> \o Interp(e[f]) \o <<"\n">> ELSE <<>>

RECURSIVE Bullets(_)
\* property.amenities.map(a => `* ${a.label}`).join('\n')
Bullets(labels) ==
  IF labels = <<>> THEN <<>>
  ELSE IF Len(labels) = 1 THEN <<"* ", labels[1]>>
       ELSE <<"* ", Head(labels), "\n">> \o Bullets(Tail(labels))

DetailsTitle == "**Property Details - ID: "

\* the detail block built from response.data.searchForSale.result[0]
PropertyDetails(e) ==
  <<DetailsTitle>> \o Interp(e["id"]) \o <<"**\n\n">>
  \o DetailLine(e, "objectType", "**Type**: ")
  \o (IF Truthy(e["streetAddress"])
      THEN <<"**Address**: ">> \o Interp(e["streetAddress"])
           \o (IF Truthy(e["descriptiveAreaName"])
               THEN <<", ">> \o Interp(e["descriptiveAreaName"]) ELSE <<>>)
           \o (IF Truthy(e["municipalityName"])
               THEN <<" (">> \o Interp(e["municipalityName"]) \o <<")">> ELSE <<>>)
           \o <<"\n">>
      ELSE <<>>)
  \o DetailLine(e, "roomsFormatted", "**Rooms**: ")
  \o DetailLine(e, "livingAreaFormatted", "**Living Area**: ")
  \o DetailLine(e, "plotAreaFormatted", "**Plot Area**: ")
  \o DetailLine(e, "floor", "**Floor**: ")
  \o DetailLine(e, "constructionYear", "**Built**: ")
  \o <<"\n**Pricing Information**\n">>
  \o DetailLine(e, "listPriceFormatted", "**List Price**: ")
  \o DetailLine(e, "listSqmPriceFormatted", "**Price per m2**: ")
  \o DetailLine(e, "rentFormatted", "**Monthly Rent**: ")
  \o DetailLine(e, "estimateFormatted", "**Estimated Value**: ")
  \o DetailLine(e, "tenureForm", "\n**Tenure Form**: ")
  \o (IF e["daysActive"].t # "undefined"
      THEN <<"**Days Active**: ">> \o Interp(e["daysActive"]) \o <<" days\n">> ELSE <<>>)
  \o DetailLine(e, "published", "**Published**: ")
  \o (IF e["listPricePercentageDiff"].t \notin {"null", "undefined"}
      THEN <<IF e["listPricePercentageDiff"].n > 0 THEN "(up)" ELSE "(down)",
             " **Price Change**: ">>
           \o (IF e["listPricePercentageDiff"].n > 0 THEN <<"+">> ELSE <<>>)
           \o Interp(e["listPricePercentageDiff"]) \o <<"%\n">>
      ELSE <<>>)
  \o FlagIf(e, "biddingOpen", "**Bidding**: Open\n")
  \o FlagIf(e, "upcomingSale", "**Upcoming Sale**: Yes\n")
  \o FlagIf(e, "isNewConstruction", "**New Construction**: Yes\n")
  \o (IF Truthy(e["amenities"]) /\ Len(e["amenities"].s) > 0
      THEN <<"\n**Amenities & Features**\n">> \o Bullets(e["amenities"].s) \o <<"\n">>
      ELSE <<>>)
  \o (IF Truthy(e["dataPoints"]) /\ Len(e["dataPoints"].s) > 0
      THEN <<"\n**Additional Details**\n">> \o JoinTokens(e["dataPoints"].s, " * ") \o <<"\n">>
      ELSE <<>>)
  \o (IF Truthy(e["agencyName"])
      THEN <<"\n**Real Estate Agency**\n", "**Name**: ">> \o Interp(e["agencyName"]) \o <<"\n">>
           \o DetailLine(e, "agencyUrl", "**Website**: ")
           \o FlagIf(e, "agencyThumbnail", "**Logo**: Available\n")
      ELSE <<>>)
  \o (IF Truthy(e["nextShowing"])
      THEN <<"\n**Next Showing**: ">> \o Interp(e["nextShowing"]) \o <<"\n">> ELSE <<>>)
  \o <<"\n**Images & Media**\n">>
  \o (IF Truthy(e["primaryImage"])
      THEN <<"**Primary Image**: ">>
           \o (IF Truthy(e["primaryImageAlt"]) THEN Interp(e["primaryImageAlt"])
               ELSE <<"Available">>) \o <<"\n">>
           \o DetailLine(e, "primaryImageUrl", "**Image URL**: ")
      ELSE <<>>)
  \o (IF e["blockedImages"] = Bool(FALSE) THEN <<"**Image Access**: Available\n">>
      ELSE IF e["blockedImages"] = Bool(TRUE) THEN <<"**Image Access**: Blocked\n">> ELSE <<>>)
  \o (IF Truthy(e["latitude"]) /\ Truthy(e["longitude"])
      THEN <<"\n**Coordinates**: ">> \o Interp(e["latitude"]) \o <<", ">>
           \o Interp(e["longitude"]) \o <<"\n">>
      ELSE <<>>)
  \o (IF Truthy(e["url"])
      THEN <<"\n**View on Booli**: https://www.booli.se">> \o Interp(e["url"]) \o <<"\n">>
      ELSE <<>>)
  \o <<"\n**Usage Tips**\n* Use the Booli link above for photos and detailed floor plans\n* Contact the listed agency for viewing appointments\n* Check the coordinates for location mapping and nearby amenities">>

\* the mutant of getPropertyDetailsFinish: the inner catch throws the client's error on
getPropertyDetailsFinishRethrow(propertyId, cr) ==
  IF cr.kind = "reject" THEN Throws(cr.err)
  ELSE Returns(Envelope(<<LimitationText(propertyId)>>, FALSE))
\* the code after `await client.getPropertyDetails({ propertyId })` settled with cr:
\* the inner catch, then the detail block of result[0]
getPropertyDetailsFinish(propertyId, cr) ==
  IF cr.kind = "reject" THEN Returns(Envelope(<<LimitationText(propertyId)>>, FALSE))
  ELSE IF cr.data.shape = "noSearch"
  THEN Throws(TypeErrorOf("Cannot read properties of undefined (reading 'result')"))
  ELSE IF cr.data.shape = "noResult"
  THEN Throws(TypeErrorOf("Cannot read properties of undefined (reading '0')"))
  ELSE IF Len(cr.data.result) = 0
  THEN Throws(TypeErrorOf("Cannot read properties of undefined (reading 'id')"))
  ELSE Returns(Envelope(<<PropertyDetails(cr.data.result[1])>>, FALSE))

NotFound == "not found"

\* the mutant of getPropertyDetailsCatch: the outer catch is missing
getPropertyDetailsCatchMissing(rawId, r) == r

\* the outer catch of getPropertyDetails; rawId is `${args.propertyId}`
getPropertyDetailsCatch(rawId, r) ==
  IF r.threw
  THEN Returns(Envelope(
         << <<"Error retrieving property details: ">>
            \o (IF r.err.isErr
                THEN (IF Includes(r.err.msg, <<NotFound>>)
                      THEN <<"Property with ID ">> \o rawId
                           \o <<" was ", NotFound, ". Please verify the property ID is correct.">>
                      ELSE r.err.msg)
                ELSE <<"Unknown error occurred while retrieving property information.">>) >>,
         TRUE))
  ELSE r

(***************************************************************************)
(* Inputs: caller arguments and upstream outcomes, drawn from small sets   *)
(***************************************************************************)
Char == {" ", "7", "a"}
Strings(n) == UNION {[1..k -> Char] : k \in 0..n}

Slots == 1..NumSlots

LimitVals == {Undef, Null} \cup {Num(k) : k \in 0..MaxLimit}
LocationVals == {Undef, Null, Str(<<>>), Str(<<" ">>), Str(<<"a">>), Str(<<"7">>)}
\* a value that is accepted once trimmed: digits, two of them, between spaces
PaddedVals == {Str(<<" ", "7", "7", " ">>)}

TextVals == {Undef, Null, Num(5)} \cup {Str(x) : x \in Strings(MaxStrLen)} \cup PaddedVals

PropertyArgs ==
  {MissingArgs} \cup
  {Args([location |-> l, limit |-> k, minPrice |-> m]) :
     l \in LocationVals, k \in LimitVals, m \in {Undef, Null, Num(0)}}
LocationArgs ==
  {MissingArgs} \cup {Args([query |-> q, limit |-> k]) : q \in TextVals, k \in LimitVals}
DetailArgs == {MissingArgs} \cup {Args([propertyId |-> q]) : q \in TextVals}

\* a text that closes the quotes of its value and opens a second filter object:
\* a" }, { key: "floor", value: "a
ClosingValue ==
  <<"a", Quote, " }", ", ", "{ key: ", Quote, "floor", Quote, ", value: ", Quote, "a">>

\* the values a criteria field is given: of the right type, or null or of a wrong type
FieldVals(f) ==
  IF f = "minPrice" THEN {Null, Num(0), Num(25), Str(<<"a">>)}
  ELSE IF f \in NumericFieldSet THEN {Null, Num(0), Num(25)}
  ELSE IF f = "propertyType" THEN {Str(<<"apartment">>), Str(<<"house">>), Str(<<"villa">>)}
  ELSE IF f = "location" THEN {Null, Str(<<>>), Str(<<"a">>), Str(<<"7">>)}
  ELSE IF f = "amenities"
  THEN {Null, Str(<<>>), Str(<<"a">>), Str(<<"a", Quote>>), Str(ClosingValue)}
  ELSE {Null, Str(<<>>), Str(<<"a">>)}

\* one criteria field given one value
Assignments == UNION {{<<f, v>> : v \in FieldVals(f)} : f \in CriteriaFieldSet}

FieldIndex(f) == CHOOSE i \in 1..Len(CriteriaFields) : CriteriaFields[i] = f

\* each field is assigned once, the fields in the order of CriteriaFields
InFieldOrder(as) ==
  \A i \in 1..(Len(as) - 1) : FieldIndex(as[i][1]) < FieldIndex(as[i + 1][1])

RECURSIVE Assign(_, _)
\* the argument object a with the fields of the assignments given
Assign(a, as) ==
  IF as = <<>> THEN a
  ELSE Assign([a EXCEPT !.f[Head(as)[1]] = Head(as)[2]], Tail(as))

\* entry i of the upstream result list: every third has many fields, every third only an id
CanonEntry(i) ==
  IF i % 3 = 1
  THEN Entry([id |-> Str(<<"p" \o ToString(i)>>), objectType |-> Str(<<"Villa">>),
              streetAddress |-> Str(<<"Storgatan 1">>), roomsFormatted |-> Str(<<"2 rum">>),
              listPriceFormatted |-> Str(<<"2 500 000 kr">>), daysActive |-> Num(0),
              url |-> Str(<<"/annons/1">>), latitude |-> Num(59), longitude |-> Num(18)])
  ELSE IF i % 3 = 2
  THEN Entry([id |-> Str(<<"p" \o ToString(i)>>), objectType |-> Null,
              descriptiveAreaName |-> Str(<<"Ektorp">>), municipalityName |-> Str(<<"Nacka">>),
              daysActive |-> Null, listPricePercentageDiff |-> Num(0 - 5),
              amenities |-> List(<<"Balkong", "Hiss">>), blockedImages |-> Bool(FALSE),
              agencyName |-> Str(<<"Maklare AB">>), primaryImage |-> Bool(TRUE)])
  ELSE Entry([id |-> Str(<<"p" \o ToString(i)>>)])

CanonSuggestion(i) ==
  IF i % 2 = 1
  THEN Suggestion([id |-> Str(<<ToString(500 + i)>>), displayName |-> Str(<<"Ektorp">>),
                   parent |-> Str(<<"Nacka">>), parentDisplayName |-> Str(<<"Nacka kommun">>),
                   parentTypeDisplayName |-> Str(<<"Kommun">>), parentId |-> Str(<<"76">>)])
  ELSE Suggestion([id |-> Str(<<ToString(500 + i)>>), displayName |-> Str(<<>>)])

\* result lists of every length up to MaxResults, and one in another order
ResultLists ==
  {[i \in 1..k |-> CanonEntry(i)] : k \in 0..MaxResults} \cup {<<CanonEntry(2), CanonEntry(1)>>}

SuggestionLists ==
  {[i \in 1..k |-> CanonSuggestion(i)] : k \in 0..MaxResults}
  \cup {<<CanonSuggestion(2), CanonSuggestion(1)>>}

Failures == {ErrorOf(<<"ECONNREFUSED">>), ErrorOf(<<"Property ", NotFound>>), NonError(<<"boom">>)}

BadShapes == {Resolve(NoData), Resolve([shape |-> "noResult", totalCount |-> 0, result |-> <<>>])}

SearchOutcomes ==
  {Resolve([shape |-> "list", totalCount |-> t, result |-> l]) :
     t \in 0..MaxTotal, l \in ResultLists}
  \cup BadShapes \cup {Reject(e) : e \in Failures}

SuggestionOutcomes ==
  {Resolve([shape |-> "list", totalCount |-> 0, result |-> l]) : l \in SuggestionLists}
  \cup BadShapes \cup {Reject(e) : e \in Failures}

\* the few outcomes used with the rich criteria
FewOutcomes ==
  {Resolve([shape |-> "list", totalCount |-> 1, result |-> <<CanonEntry(1)>>]),
   Reject(ErrorOf(<<"ECONNREFUSED">>))}

OutcomesOf(tool) == IF tool = "search_locations" THEN SuggestionOutcomes ELSE SearchOutcomes

(***************************************************************************)
(* The state: one record per invocation slot.                              *)
(*   pc          "idle" | "awaiting" (suspended at the await) | "done"     *)
(*   tool        the tool called                                           *)
(*   args        the arguments of the call                                 *)
(*   criteria    the criteria object handed to client.searchForSale        *)
(*   limit       the limit the handler computed                            *)
(*   clientArg   the query / propertyId handed to the client               *)
(*   clientCalls the number of client methods invoked                      *)
(*   normalized  "none" | "built" | "threw": what buildSearchInput did     *)
(*   input       the search input it built                                 *)
(*   requests    the query texts sent upstream, in order                   *)
(*   outcome     how the awaited promise settled                           *)
(*   result      what the handler did at the end: return an envelope, or   *)
(*               throw to its caller                                       *)
(* wiring: the module-level client is the real BooliGraphQLClient or a     *)
(* substitute whose methods settle as the test double is told ("mock").    *)
(***************************************************************************)
NoCriteria == [f \in CriteriaFieldSet |-> Undef]

IdleCall ==
  [pc |-> "idle", tool |-> "none", args |-> MissingArgs, criteria |-> NoCriteria,
   limit |-> Undef, clientArg |-> Undef, clientCalls |-> 0, normalized |-> "none",
   input |-> NoInput, requests |-> <<>>, outcome |-> NoOutcome, result |-> Returns(NoEnvelope)]

Started(tool, args) == [IdleCall EXCEPT !.tool = tool, !.args = args]

Finished(c, r) == [c EXCEPT !.pc = "done", !.result = r]

\* the mutant of searchPropertiesStart: the filter list is kept in one array that the
\* invocations share, so a call made while another is suspended appends to its list
searchPropertiesStartSharedFilters(args, w) ==
  IF ~args.present
  THEN Finished(Started("search_properties", args),
                searchPropertiesCatch(Throws(TypeErrorOf(
                  "Cannot read properties of undefined (reading 'location')"))))
  ELSE LET c == [Started("search_properties", args) EXCEPT
                   !.criteria = BuildCriteria(args), !.limit = LimitOf(args),
                   !.clientCalls = 1]
           bsi == buildSearchInput(BuildCriteria(args))
           suspended == {t \in Slots : calls[t].pc = "awaiting"}
           kept == IF suspended = {} THEN <<>>
                   ELSE calls[CHOOSE t \in suspended : TRUE].input.filters
           input == [bsi.input EXCEPT !.filters = kept \o @]
       IN IF w = "mock" THEN [c EXCEPT !.pc = "awaiting"]
          ELSE IF bsi.threw
               THEN Finished([c EXCEPT !.normalized = "threw"],
                             searchPropertiesCatch(Throws(bsi.err)))
               ELSE [c EXCEPT !.pc = "awaiting", !.normalized = "built",
                              !.input = input,
                              !.requests = <<SearchQuery(input)>>]

\* searchProperties up to its await (or to its end, when it never gets there)
searchPropertiesStart(args, w) ==
  IF ~args.present
  THEN Finished(Started("search_properties", args),
                searchPropertiesCatch(Throws(TypeErrorOf(
                  "Cannot read properties of undefined (reading 'location')"))))
  ELSE LET c == [Started("search_properties", args) EXCEPT
                   !.criteria = BuildCriteria(args), !.limit = LimitOf(args),
                   !.clientCalls = 1]
           bsi == buildSearchInput(BuildCriteria(args))
       IN IF w = "mock" THEN [c EXCEPT !.pc = "awaiting"]
          ELSE IF bsi.threw
               THEN Finished([c EXCEPT !.normalized = "threw"],
                             searchPropertiesCatch(Throws(bsi.err)))
               ELSE [c EXCEPT !.pc = "awaiting", !.normalized = "built",
                              !.input = bsi.input,
                              !.requests = <<SearchQuery(bsi.input)>>]

\* the mutant of searchLocationsStart: the query is forwarded as the caller gave it
searchLocationsStartRaw(args, w) ==
  IF ~args.present
  THEN Finished(Started("search_locations", args),
                searchLocationsCatch(Throws(TypeErrorOf(
                  "Cannot read properties of undefined (reading 'query')"))))
  ELSE IF LocationValidation(args) # NoEnvelope
  THEN Finished(Started("search_locations", args), Returns(LocationValidation(args)))
  ELSE LET c == [Started("search_locations", args) EXCEPT
                   !.pc = "awaiting", !.limit = LimitOf(args),
                   !.clientArg = args.f["query"], !.clientCalls = 1]
       IN IF w = "mock" THEN c
          ELSE [c EXCEPT !.requests = <<LocationQuery([query |-> c.clientArg])>>]

\* searchLocations up to its await
searchLocationsStart(args, w) ==
  IF ~args.present
  THEN Finished(Started("search_locations", args),
                searchLocationsCatch(Throws(TypeErrorOf(
                  "Cannot read properties of undefined (reading 'query')"))))
  ELSE IF LocationValidation(args) # NoEnvelope
  THEN Finished(Started("search_locations", args), Returns(LocationValidation(args)))
  ELSE LET c == [Started("search_locations", args) EXCEPT
                   !.pc = "awaiting", !.limit = LimitOf(args),
                   !.clientArg = Str(Trim(args.f["query"].s)), !.clientCalls = 1]
       IN IF w = "mock" THEN c
          ELSE [c EXCEPT !.requests = <<LocationQuery([query |-> c.clientArg])>>]

\* getPropertyDetails up to its await; the real client throws at once
getPropertyDetailsStart(args, w) ==
  IF ~args.present
  THEN Finished(Started("get_property_details", args),
                getPropertyDetailsCatch(<<"undefined">>, Throws(TypeErrorOf(
                  "Cannot read properties of undefined (reading 'propertyId')"))))
  ELSE IF PropertyIdValidation(args) # NoEnvelope
  THEN Finished(Started("get_property_details", args), Returns(PropertyIdValidation(args)))
  ELSE LET c == [Started("get_property_details", args) EXCEPT
                   !.clientArg = Str(Trim(args.f["propertyId"].s)), !.clientCalls = 1]
       IN IF w = "mock" THEN [c EXCEPT !.pc = "awaiting"]
          ELSE Finished([c EXCEPT !.outcome = clientGetPropertyDetails(c.clientArg.s)],
                        getPropertyDetailsCatch(Interp(args.f["propertyId"]),
                          getPropertyDetailsFinish(c.clientArg.s,
                                                   clientGetPropertyDetails(c.clientArg.s))))

\* the rest of a handler, once the promise it awaits has settled with cr
Resume(c, cr) ==
  CASE c.tool = "search_properties" ->
         searchPropertiesCatch(searchPropertiesFinish(c.criteria, c.limit, cr))
    [] c.tool = "search_locations" ->
         searchLocationsCatch(searchLocationsFinish(c.clientArg.s, c.limit, cr))
    [] OTHER ->
         getPropertyDetailsCatch(Interp(c.args.f["propertyId"]),
                                 getPropertyDetailsFinish(c.clientArg.s, cr))

\* the client method's catch / return around the settled request
ClientSettle(tool, o) ==
  IF tool = "search_properties" THEN searchForSaleSettle(o) ELSE searchLocationsSettle(o)

TypeOK ==
  /\ wiring \in {"real", "mock"}
  /\ \A s \in Slots : calls[s].pc \in {"idle", "awaiting", "done"}

Init ==
  /\ wiring \in {"real", "mock"}
  /\ calls = [s \in Slots |-> IdleCall]

CallSearchProperties(s) ==
  /\ calls[s].pc = "idle"
  /\ \E args \in PropertyArgs : calls' = [calls EXCEPT ![s] = searchPropertiesStart(args, wiring)]
  /\ UNCHANGED wiring

\* search_properties called with up to MaxSetFields criteria fields given
CallSearchPropertiesGiving(s) ==
  /\ calls[s].pc = "idle"
  /\ \E n \in 0..MaxSetFields : \E as \in [1..n -> Assignments] :
       /\ InFieldOrder(as)
       /\ calls' = [calls EXCEPT ![s] =
                      searchPropertiesStart(Assign(Args([limit |-> Undef]), as), wiring)]
  /\ UNCHANGED wiring

CallSearchLocations(s) ==
  /\ calls[s].pc = "idle"
  /\ \E args \in LocationArgs : calls' = [calls EXCEPT ![s] = searchLocationsStart(args, wiring)]
  /\ UNCHANGED wiring

CallGetPropertyDetails(s) ==
  /\ calls[s].pc = "idle"
  /\ \E args \in DetailArgs : calls' = [calls EXCEPT ![s] = getPropertyDetailsStart(args, wiring)]
  /\ UNCHANGED wiring

\* the request sent upstream resolves or rejects; the client and the handler run on
UpstreamSettles(s, outcomes) ==
  /\ calls[s].pc = "awaiting"
  /\ wiring = "real"
  /\ \E o \in outcomes :
       calls' = [calls EXCEPT ![s] =
                   Finished([calls[s] EXCEPT !.outcome = o],
                            Resume(calls[s], ClientSettle(calls[s].tool, o)))]
  /\ UNCHANGED wiring

\* the substituted client method resolves or rejects; the handler runs on
MockSettles(s) ==
  /\ calls[s].pc = "awaiting"
  /\ wiring = "mock"
  /\ \E o \in OutcomesOf(calls[s].tool) :
       calls' = [calls EXCEPT ![s] =
                   Finished([calls[s] EXCEPT !.outcome = o], Resume(calls[s], o))]
  /\ UNCHANGED wiring

\* the caller has taken the envelope; the slot is free again
Return(s) ==
  /\ calls[s].pc = "done"
  /\ calls' = [calls EXCEPT ![s] = IdleCall]
  /\ UNCHANGED wiring

\* one caller, one call at a time
Next ==
  \/ CallSearchProperties(1)
  \/ CallSearchLocations(1)
  \/ CallGetPropertyDetails(1)
  \/ UpstreamSettles(1, OutcomesOf(calls[1].tool))
  \/ MockSettles(1)
  \/ Return(1)

Spec == Init /\ [][Next]_vars

\* search_properties with up to MaxSetFields criteria fields given, real client
InitCriteria ==
  /\ wiring = "real"
  /\ calls = [s \in Slots |-> IdleCall]

NextCriteria ==
  \/ CallSearchPropertiesGiving(1)
  \/ UpstreamSettles(1, FewOutcomes)
  \/ Return(1)

SpecCriteria == InitCriteria /\ [][NextCriteria]_vars

\* the answers of the upstream in the runs where every request settles
SettlingOutcomes(tool) ==
  IF tool = "search_locations"
  THEN {Resolve([shape |-> "list", totalCount |-> 0, result |-> l]) :
          l \in {<<>>, <<CanonSuggestion(1), CanonSuggestion(2)>>}}
       \cup {Resolve(NoData), Reject(ErrorOf(<<"ECONNREFUSED">>))}
  ELSE FewOutcomes \cup {Resolve(NoData), Reject(NonError(<<"boom">>))}

\* the three tools with the real client
NextSettling ==
  \/ CallSearchProperties(1)
  \/ CallSearchLocations(1)
  \/ CallGetPropertyDetails(1)
  \/ UpstreamSettles(1, SettlingOutcomes(calls[1].tool))
  \/ Return(1)

\* every request sent upstream resolves or rejects at last
SettlesEventually == WF_vars(UpstreamSettles(1, SettlingOutcomes(calls[1].tool)))

SpecSettling == InitCriteria /\ [][NextSettling]_vars /\ SettlesEventually

\* search texts with and without double quotes
QuotedQueries == {Str(<<"a", "a">>), Str(<<"a", Quote>>), Str(<<Quote, "a", Quote>>)}

CallSearchLocationsQuoting(s) ==
  /\ calls[s].pc = "idle"
  /\ \E q \in QuotedQueries :
       calls' = [calls EXCEPT ![s] = searchLocationsStart(Args([query |-> q]), wiring)]
  /\ UNCHANGED wiring

\* the two tools that compile a query, real client, caller texts of every kind
NextCompile ==
  \/ CallSearchPropertiesGiving(1)
  \/ CallSearchLocationsQuoting(1)
  \/ UpstreamSettles(1, SettlingOutcomes(calls[1].tool))
  \/ Return(1)

SpecCompile == InitCriteria /\ [][NextCompile]_vars

\* the arguments and upstream answers of the overlapping search_properties calls
ConcurrentArgs ==
  {Args([location |-> l, limit |-> k, minPrice |-> m]) :
     l \in {Undef, Str(<<"a">>)}, k \in {Undef, Num(1)},
     m \in {Undef, Null, Num(0)}}

ConcurrentOutcomes ==
  FewOutcomes
  \cup {Resolve([shape |-> "list", totalCount |-> 2, result |-> <<CanonEntry(1), CanonEntry(2)>>])}

CallSearchPropertiesConcurrently(s) ==
  /\ calls[s].pc = "idle"
  /\ \E args \in ConcurrentArgs :
       calls' = [calls EXCEPT ![s] = searchPropertiesStart(args, wiring)]
  /\ UNCHANGED wiring

\* several search_properties calls in flight: each runs from its call to its await
\* without interruption, and the awaited requests settle in any order
NextConcurrent ==
  \E s \in Slots :
    \/ CallSearchPropertiesConcurrently(s)
    \/ UpstreamSettles(s, ConcurrentOutcomes)
    \/ Return(s)

SpecConcurrent == InitCriteria /\ [][NextConcurrent]_vars

(***************************************************************************)
(* Properties                                                              *)
(***************************************************************************)
\* the number of occurrences of token in text
Count(text, token) == Cardinality({i \in 1..Len(text) : text[i] = token})

RECURSIVE Following(_, _)
\* the tokens that follow the occurrences of marker in text, in order
Following(text, marker) ==
  IF Len(text) < 2 THEN <<>>
  ELSE (IF Head(text) = marker THEN <<text[2]>> ELSE <<>>) \o Following(Tail(text), marker)

\* the filter pairs of the list with key k
PairsWithKey(filters, k) == SelectSeq(filters, LAMBDA p : p.key = k)

\* the text blocks of the envelope a call returned
Blocks(c) == c.result.env.content

EveryCallReturnsEnvelope ==
  \A s \in Slots :
    calls[s].pc = "done" =>
      /\ ~calls[s].result.threw
      /\ Len(Blocks(calls[s])) >= 1
      /\ calls[s].result.env.isError \in BOOLEAN

\* search_properties, its client rejecting with a value that is no Error, has returned
\* the error envelope
NonErrorRejectionWitness ==
  \E s \in Slots :
    /\ calls[s].pc = "done"
    /\ calls[s].tool = "search_properties"
    /\ calls[s].outcome.kind = "reject"
    /\ ~calls[s].outcome.err.isErr
    /\ ~calls[s].result.threw
    /\ calls[s].result.env.isError

\* C3: when the upstream request of search_properties or search_locations fails with
\* an Error of message m, the call returns an envelope with isError set and one text
\* block that contains m, and that holds no result entry.
UpstreamErrorMessageReported ==
  \A s \in Slots :
    LET c == calls[s]
    IN  (/\ wiring = "real"
         /\ c.pc = "done"
         /\ c.tool \in {"search_properties", "search_locations"}
         /\ c.outcome.kind = "reject"
         /\ c.outcome.err.isErr) =>
          /\ ~c.result.threw
          /\ c.result.env.isError
          /\ Len(Blocks(c)) = 1
          /\ Includes(Blocks(c)[1], c.outcome.err.msg)
          /\ Count(Blocks(c)[1], IdMarker) = 0
          /\ Count(Blocks(c)[1], LocationIdMarker) = 0

\* a search_properties call whose request failed with ECONNREFUSED has reported it
UpstreamErrorWitness ==
  \E s \in Slots :
    /\ wiring = "real"
    /\ calls[s].pc = "done"
    /\ calls[s].tool = "search_properties"
    /\ calls[s].outcome = Reject(ErrorOf(<<"ECONNREFUSED">>))
    /\ calls[s].result.env.isError
    /\ Includes(Blocks(calls[s])[1], <<"ECONNREFUSED">>)

\* C4: a search_locations call whose query is a string of trimmed length below 2
\* (empty and all-whitespace included) ends at once with an error envelope, and
\* client.searchLocations is not invoked: no request goes upstream.
ShortQueryRejectedLocally ==
  \A s \in Slots :
    LET c == calls[s]
        q == c.args.f["query"]
    IN  (c.tool = "search_locations" /\ c.args.present /\ q.t = "string"
         /\ Len(Trim(q.s)) < 2) =>
          /\ c.pc = "done"
          /\ ~c.result.threw
          /\ c.result.env.isError
          /\ c.clientCalls = 0
          /\ c.requests = <<>>
          /\ c.outcome = NoOutcome

\* the query " a", two characters long and one after trimming, was rejected
ShortQueryWitness ==
  \E s \in Slots :
    /\ calls[s].pc = "done"
    /\ calls[s].tool = "search_locations"
    /\ calls[s].args.f["query"] = Str(<<" ", "a">>)
    /\ calls[s].result.env.isError
    /\ calls[s].clientCalls = 0

\* a search_properties call whose awaited search resolved with an empty result list
EmptyResult(c) ==
  /\ c.pc = "done"
  /\ c.tool = "search_properties"
  /\ c.outcome.kind = "resolve"
  /\ c.outcome.data.shape = "list"
  /\ c.outcome.data.result = <<>>

\* the success envelope with the one 'No properties found' block naming place
NoMatchEnvelope(place) ==
  Returns(Envelope(<< <<"No properties found matching your criteria in ">> \o place \o <<".">> >>,
                   FALSE))

\* C5 as stated: on an empty result list (whatever totalCount) search_properties
\* returns a success envelope with the one block 'No properties found matching your
\* criteria in <location>.', <location> being the requested location when one is
\* given and 'the specified area' when it is absent.
NoMatchEchoesGivenLocation ==
  \A s \in Slots :
    LET c == calls[s]
        loc == c.args.f["location"]
    IN  EmptyResult(c) =>
          /\ loc.t = "string" => c.result = NoMatchEnvelope(loc.s)
          /\ loc.t = "undefined" => c.result = NoMatchEnvelope(<<"the specified area">>)

\* C5 amended: on an empty result list (whatever totalCount) search_properties
\* returns a success envelope with the one block 'No properties found matching your
\* criteria in <location>.', <location> being the requested location when it is a
\* non-empty string, and 'the specified area' when location is absent, null or the
\* empty string.
NoMatchEchoesNonEmptyLocation ==
  \A s \in Slots :
    LET c == calls[s]
        loc == c.args.f["location"]
    IN  EmptyResult(c) =>
          /\ (loc.t = "string" /\ loc.s # <<>>) => c.result = NoMatchEnvelope(loc.s)
          /\ (loc.t \in {"undefined", "null"} \/ loc = Str(<<>>)) =>
               c.result = NoMatchEnvelope(<<"the specified area">>)

\* an empty result list met an empty-string location: the generic phrase was returned
NoMatchEmptyLocationWitness ==
  \E s \in Slots :
    /\ EmptyResult(calls[s])
    /\ calls[s].args.f["location"] = Str(<<>>)
    /\ calls[s].outcome.data.totalCount > 0
    /\ calls[s].result = NoMatchEnvelope(<<"the specified area">>)

\* C6 as stated: for a requested limit k >= 0 and a result list longer than k, the
\* output holds exactly k entries, the first k of the list in upstream order, and the
\* summary states the upstream totalCount, and the shown count k whenever the two
\* differ.
LimitTruncatesEntries ==
  \A s \in Slots :
    LET c == calls[s]
        k == c.args.f["limit"]
        d == c.outcome.data
    IN  (/\ c.pc = "done"
         /\ c.tool = "search_properties"
         /\ c.args.present /\ k.t = "number" /\ k.n >= 0
         /\ c.outcome.kind = "resolve" /\ d.shape = "list"
         /\ Len(d.result) > k.n) =>
          /\ ~c.result.threw
          /\ ~c.result.env.isError
          /\ Len(Blocks(c)) = 1
          /\ Count(Blocks(c)[1], IdMarker) = k.n
          /\ Following(Blocks(c)[1], IdMarker) = [i \in 1..k.n |-> d.result[i]["id"].s[1]]
          /\ Includes(Blocks(c)[1], <<"Found ">> \o IntToStr(d.totalCount) \o <<" properties">>)
          /\ d.totalCount # k.n =>
               Includes(Blocks(c)[1], <<" (showing first ">> \o IntToStr(k.n) \o <<")">>)

\* a search_properties call for which the normalizer was invoked
Normalized(c) == c.tool = "search_properties" /\ c.normalized # "none"

\* C7 as stated: for each numeric criterion, the value 0 given to search_properties
\* reaches the normalizer unchanged and the filter list holds the pair of its key with
\* the string value "0"; an absent value gives no pair of that key.
ZeroCriterionEmitsFilterPair ==
  \A s \in Slots : \A f \in NumericFieldSet :
    LET c == calls[s]
    IN  Normalized(c) =>
          /\ c.args.f[f] = Num(0) =>
               /\ c.criteria[f] = Num(0)
               /\ c.normalized = "built"
               /\ PairsWithKey(c.input.filters, FilterKeyOf(f))
                    = <<FilterPair(FilterKeyOf(f), Str(<<"0">>))>>
          /\ c.args.f[f] = Undef =>
               PairsWithKey(c.input.filters, FilterKeyOf(f)) = <<>>

\* C8 as stated: in the search input the normalizer returns, every criteria field that
\* is not undefined is present, the string fields by the same test: an empty string
\* given as amenities, floor or showOnly is kept as a pair with value "", and an empty
\* location as the area reference "".
PresenceIsNotUndefined ==
  \A s \in Slots :
    LET c == calls[s]
    IN  (Normalized(c) /\ c.normalized = "built") =>
          /\ \A f \in {"amenities", "floor", "showOnly"} :
               c.criteria[f].t = "string" =>
                 PairsWithKey(c.input.filters, f) = <<FilterPair(f, c.criteria[f])>>
          /\ c.criteria["location"].t = "string" => c.input.areaId = c.criteria["location"]

\* C8 amended: presence of the numeric fields is decided by 'not undefined' (0 is
\* kept as "0"; a null reaches toString and the normalizer raises), presence of
\* location, amenities, floor and showOnly by truthiness: a non-empty string is kept
\* as it is, an empty string (or null) is dropped like an absent value.
PresenceOfStringsIsTruthiness ==
  \A s \in Slots :
    LET c == calls[s]
    IN  Normalized(c) =>
          IF \E f \in NumericFieldSet : c.criteria[f] = Null
          THEN c.normalized = "threw"
          ELSE /\ c.normalized = "built"
               /\ \A f \in NumericFieldSet :
                    Len(PairsWithKey(c.input.filters, FilterKeyOf(f)))
                      = IF c.criteria[f].t # "undefined" THEN 1 ELSE 0
               /\ \A f \in {"amenities", "floor", "showOnly"} :
                    PairsWithKey(c.input.filters, f)
                      = IF c.criteria[f].t = "string" /\ c.criteria[f].s # <<>>
                        THEN <<FilterPair(f, c.criteria[f])>> ELSE <<>>
               /\ c.input.areaId
                    = IF c.criteria["location"].t = "string" /\ c.criteria["location"].s # <<>>
                      THEN c.criteria["location"] ELSE Undef

\* the normalizer was given amenities "" and minPrice 0: it kept the 0 and dropped the ""
EmptyStringDroppedWitness ==
  \E s \in Slots :
    /\ Normalized(calls[s])
    /\ calls[s].normalized = "built"
    /\ calls[s].criteria["amenities"] = Str(<<>>)
    /\ calls[s].criteria["minPrice"] = Num(0)
    /\ calls[s].input.filters = <<FilterPair("minListPrice", Str(<<"0">>))>>

\* C9 as stated: the normalizer never raises, whatever the criteria hold (null, a
\* value that is no number, a propertyType it cannot map): it returns a search input.
NormalizerNeverRaises ==
  \A s \in Slots : Normalized(calls[s]) => calls[s].normalized = "built"

\* C10 as stated: the normalizer raises nothing and the filter list holds exactly one
\* objectType pair, with value 'Lägenhet', for propertyType 'apartment', exactly one,
\* with value 'Villa', for 'house', and none for any other propertyType (absent or
\* an unknown string).
PropertyTypeMapsToLabel ==
  \A s \in Slots :
    LET c == calls[s]
        t == c.criteria["propertyType"]
    IN  Normalized(c) =>
          /\ c.normalized = "built"
          /\ PairsWithKey(c.input.filters, "objectType")
               = IF t = Str(<<"apartment">>) THEN <<FilterPair("objectType", Str(<<"Lägenhet">>))>>
                 ELSE IF t = Str(<<"house">>) THEN <<FilterPair("objectType", Str(<<"Villa">>))>>
                 ELSE <<>>

\* the query text sent upstream by a call that sent one
QueryOf(c) == c.requests[1]

FilterKeyOrder ==
  <<"minListPrice", "maxListPrice", "minRooms", "maxRooms", "minLivingArea", "maxLivingArea",
    "objectType", "minListSqmPrice", "maxListSqmPrice", "minPlotArea", "maxPlotArea",
    "minConstructionYear", "maxConstructionYear", "maxRent", "daysActive",
    "amenities", "floor", "showOnly">>

\* the place of key k in that order, 0 for a key that is not in it
OrderIndex(k) ==
  IF \E i \in 1..Len(FilterKeyOrder) : FilterKeyOrder[i] = k
  THEN CHOOSE i \in 1..Len(FilterKeyOrder) : FilterKeyOrder[i] = k
  ELSE 0

HasAreaField(query, area) == Includes(query, <<"areaId: ", Quote>> \o area \o <<Quote>>)

FilterListOf(query) ==
  SubSeq(query, 2,
         (CHOOSE i \in 1..Len(query) :
            query[i] = "] " /\ \A j \in 1..(i - 1) : query[j] # "] ") - 1)

RECURSIVE RenderedPairs(_)
\* the pairs written one by one as { key: "<key>", value: "<value>" }, joined by ', '
RenderedPairs(fs) ==
  IF fs = <<>> THEN <<>>
  ELSE <<"{ key: ", Quote, Head(fs).key, Quote, ", value: ", Quote>>
       \o Head(fs).value.s \o <<Quote, " }">>
       \o (IF Len(fs) > 1 THEN <<", ">> ELSE <<>>)
       \o RenderedPairs(Tail(fs))

RECURSIVE Segments(_)
\* the text cut at its blank-line separators: segment i holds the rendered entry i
\* (segment 1 after the summary line)
Segments(text) ==
  IF \A i \in 1..Len(text) : text[i] # "\n\n" THEN <<text>>
  ELSE LET i == CHOOSE i \in 1..Len(text) :
                  text[i] = "\n\n" /\ \A j \in 1..(i - 1) : text[j] # "\n\n"
       IN  <<SubSeq(text, 1, i - 1)>> \o Segments(SubSeq(text, i + 1, Len(text)))

\* the optional fields of an entry that have a line of their own, with its label
FieldLabels ==
  << <<"streetAddress", "\n   Address: ">>, <<"descriptiveAreaName", "\n   Area: ">>,
     <<"roomsFormatted", "\n   Rooms: ">>, <<"livingAreaFormatted", "\n   Living Area: ">>,
     <<"plotAreaFormatted", "\n   Plot Area: ">>, <<"listPriceFormatted", "\n   List Price: ">>,
     <<"listSqmPriceFormatted", "\n   Price per m2: ">>,
     <<"estimateFormatted", "\n   Estimated Value: ">>,
     <<"daysActive", "\n   Days Active: ">>, <<"published", "\n   Published: ">>,
     <<"tenureForm", "\n   Tenure: ">>, <<"constructionYear", "\n   Built: ">>,
     <<"amenities", "\n   Amenities: ">>, <<"listPricePercentageDiff", " Price Change: ">>,
     <<"primaryImage", "\n   Image: ">>, <<"agencyName", "\n   Agency: ">>,
     <<"nextShowing", "\n   Next Showing: ">>,
     <<"url", "\n   View Property: https://www.booli.se">> >>

\* C15 as stated: whatever optional fields of the result entries are missing or
\* null, search_properties succeeds, the text of an entry holds no line (and so no
\* placeholder) for a field of it that is missing or null, and the line of a field
\* that has a text or a non-zero number is there with its value.
AbsentFieldHasNoLine ==
  \A s \in Slots :
    LET c == calls[s]
        d == c.outcome.data
    IN  (/\ c.pc = "done"
         /\ c.tool = "search_properties"
         /\ c.outcome.kind = "resolve" /\ d.shape = "list" /\ Len(d.result) > 0) =>
          /\ ~c.result.threw
          /\ ~c.result.env.isError
          /\ Len(Blocks(c)) = 1
          /\ \A i \in 1..Len(Segments(Blocks(c)[1])) : \A j \in 1..Len(FieldLabels) :
               LET v == d.result[i][FieldLabels[j][1]]
                   seg == Segments(Blocks(c)[1])[i]
               IN  /\ v.t \in {"undefined", "null"} => Count(seg, FieldLabels[j][2]) = 0
                   /\ (v.t = "string" /\ v.s # <<>>) =>
                        Includes(seg, <<FieldLabels[j][2]>> \o v.s)

\* the query of a search_locations call passes its validation
ValidQuery(args) ==
  args.present /\ args.f["query"].t = "string" /\ Len(Trim(args.f["query"].s)) >= 2

\* C16 as stated: with the real client an invocation sends at most one request
\* upstream, whether it is suspended at its await or has returned (no retry after
\* a failure, no second request after a response): search_properties sends exactly
\* one, search_locations one exactly when its validation passes,
\* get_property_details none.
OneRequestPerInvocation ==
  \A s \in Slots :
    LET c == calls[s]
    IN  (wiring = "real" /\ c.pc # "idle") =>
          /\ Len(c.requests) <= 1
          /\ c.tool = "search_properties" => Len(c.requests) = 1
          /\ c.tool = "search_locations" => (Len(c.requests) = 1 <=> ValidQuery(c.args))
          /\ c.tool = "get_property_details" => c.requests = <<>>

\* the number of result entries a text block carries: listed properties, listed
\* locations, detail blocks
EntryCount(text) ==
  Count(text, IdMarker) + Count(text, LocationIdMarker) + Count(text, DetailsTitle)

\* the openings of the error messages of the three tools
ErrorOpenings ==
  {"Error searching for properties: ", "Error searching for locations: ",
   "Error retrieving property details: ",
   "Error: Query parameter is required and must be a non-empty string.",
   "Error: Search query cannot be empty.",
   "Error: Search query must be at least 2 characters long.",
   "Error: Property ID parameter is required and must be a non-empty string.",
   "Error: Property ID cannot be empty.",
   "Error: Property ID must be a numeric value (e.g., "}

\* C17: an envelope returned with isError set has exactly one text block, an error
\* message, and carries no result entry; an envelope that carries result entries
\* has no isError indicator.
NoEntriesAlongsideError ==
  \A s \in Slots :
    LET c == calls[s]
    IN  (c.pc = "done" /\ ~c.result.threw) =>
          /\ c.result.env.isError =>
               /\ Len(Blocks(c)) = 1
               /\ Head(Blocks(c)[1]) \in ErrorOpenings
               /\ EntryCount(Blocks(c)[1]) = 0
          /\ (\E i \in 1..Len(Blocks(c)) : EntryCount(Blocks(c)[i]) > 0) =>
               ~c.result.env.isError

\* a location search whose client call failed has returned its one error block
ErrorEnvelopeWitness ==
  \E s \in Slots :
    /\ calls[s].pc = "done"
    /\ calls[s].tool = "search_locations"
    /\ calls[s].outcome.kind = "reject"
    /\ calls[s].result.env.isError
    /\ Len(Blocks(calls[s])) = 1

\* a propertyId that is missing, not a string, whitespace-only, or holds a
\* non-digit character after trimming
InvalidPropertyId(v) == v.t # "string" \/ ~IsDigits(Trim(v.s))

\* the three messages of the propertyId validation
PropertyIdMessages ==
  {<<"Error: Property ID parameter is required and must be a non-empty string.">>,
   <<"Error: Property ID cannot be empty.">>,
   <<"Error: Property ID must be a numeric value (e.g., ", Quote, "12345", Quote, ").">>}

\* C18: a get_property_details call whose propertyId is missing, not a string,
\* whitespace-only or, once trimmed, holds a character that is not a digit ends
\* at once with an error envelope (isError set, one block holding one of the three
\* validation messages), and client.getPropertyDetails is not invoked.
InvalidPropertyIdRejectedLocally ==
  \A s \in Slots :
    LET c == calls[s]
    IN  (c.tool = "get_property_details" /\ c.args.present
         /\ InvalidPropertyId(c.args.f["propertyId"])) =>
          /\ c.pc = "done"
          /\ ~c.result.threw
          /\ c.result.env.isError
          /\ Len(Blocks(c)) = 1
          /\ Blocks(c)[1] \in PropertyIdMessages
          /\ c.clientCalls = 0
          /\ c.outcome = NoOutcome

\* the id "7a", digits followed by a letter, was rejected without a client call
NonDigitIdWitness ==
  \E s \in Slots :
    /\ calls[s].pc = "done"
    /\ calls[s].tool = "get_property_details"
    /\ calls[s].args.f["propertyId"] = Str(<<"7", "a">>)
    /\ calls[s].result.env.isError
    /\ calls[s].clientCalls = 0

\* the tokens right after the occurrences of marker in text, in order of occurrence
TokensAfter(text, marker) ==
  LET at == {i \in 1..(Len(text) - 1) : text[i] = marker}
  IN  [k \in 1..Cardinality(at) |->
         text[(CHOOSE p \in at : Cardinality({q \in at : q < p}) = k - 1) + 1]]

\* the caller's limit L of a call: the number given, the default when none is given
CallerLimit(args) ==
  IF args.f["limit"].t = "number" THEN args.f["limit"].n ELSE DefaultLimit

\* C19 as stated: a valid search_locations query answered with M >= 1 suggestions
\* lists exactly the first min(L, M) of them in upstream order, the summary states
\* the total M, and "(showing first L)" appears exactly when L < M.
LocationLimitTruncates ==
  \A s \in Slots :
    LET c == calls[s]
        L == CallerLimit(c.args)
        d == c.outcome.data
        M == Len(d.result)
        shown == IF L < M THEN L ELSE M
    IN  (/\ c.pc = "done"
         /\ c.tool = "search_locations"
         /\ ValidQuery(c.args)
         /\ c.outcome.kind = "resolve" /\ d.shape = "list"
         /\ M >= 1) =>
          /\ ~c.result.threw
          /\ ~c.result.env.isError
          /\ Len(Blocks(c)) = 1
          /\ Count(Blocks(c)[1], LocationIdMarker) = shown
          /\ TokensAfter(Blocks(c)[1], LocationIdMarker)
               = [i \in 1..shown |-> d.result[i]["id"].s[1]]
          /\ Includes(Blocks(c)[1],
                      <<"Found ">> \o IntToStr(M) \o <<" location suggestions for ">>)
          /\ IF L < M
             THEN Includes(Blocks(c)[1], <<ShowingFirst>> \o IntToStr(L) \o <<")">>)
             ELSE Count(Blocks(c)[1], ShowingFirst) = 0

\* C20: a search_locations call with a valid query whose suggestion list came
\* back empty returns a success envelope: no isError indicator, and one text block
\* that opens with 'No locations found matching "<query>"', query trimmed.
EmptySuggestionsAreSuccess ==
  \A s \in Slots :
    LET c == calls[s]
        d == c.outcome.data
        opening == <<"No locations found matching ", Quote>>
                   \o Trim(c.args.f["query"].s) \o <<Quote>>
    IN  (/\ c.pc = "done"
         /\ c.tool = "search_locations"
         /\ ValidQuery(c.args)
         /\ c.outcome.kind = "resolve" /\ d.shape = "list"
         /\ d.result = <<>>) =>
          /\ ~c.result.threw
          /\ ~c.result.env.isError
          /\ Len(Blocks(c)) = 1
          /\ Len(Blocks(c)[1]) > Len(opening)
          /\ SubSeq(Blocks(c)[1], 1, Len(opening)) = opening
          /\ EntryCount(Blocks(c)[1]) = 0

\* the two-character query "a7" was answered with no suggestion
EmptySuggestionsWitness ==
  \E s \in Slots :
    /\ calls[s].pc = "done"
    /\ calls[s].tool = "search_locations"
    /\ calls[s].args.f["query"] = Str(<<"a", "7">>)
    /\ calls[s].outcome.kind = "resolve"
    /\ calls[s].outcome.data.shape = "list"
    /\ calls[s].outcome.data.result = <<>>
    /\ ~calls[s].result.env.isError

\* what a search_properties invocation with the real client holds when it runs
\* alone with arguments args: suspended at its request, or returned before it
AloneSuspended(args) ==
  LET criteria == BuildCriteria(args)
      bsi == buildSearchInput(criteria)
      c == [IdleCall EXCEPT !.tool = "search_properties", !.args = args,
                            !.criteria = criteria, !.limit = LimitOf(args),
                            !.clientCalls = 1]
  IN  IF bsi.threw
      THEN [c EXCEPT !.pc = "done", !.normalized = "threw",
                     !.result = searchPropertiesCatch(Throws(bsi.err))]
      ELSE [c EXCEPT !.pc = "awaiting", !.normalized = "built", !.input = bsi.input,
                     !.requests = <<SearchQuery(bsi.input)>>]

\* ... and what it holds once its request has settled with outcome o
AloneReturned(args, o) ==
  LET c == AloneSuspended(args)
  IN  IF c.pc = "done" THEN c
      ELSE [c EXCEPT !.pc = "done", !.outcome = o,
                     !.result = searchPropertiesCatch(
                                  searchPropertiesFinish(c.criteria, c.limit,
                                                         searchForSaleSettle(o)))]

EveryInvocationReturnsOnce ==
  /\ \A s \in Slots :
       (calls[s].pc # "idle") ~>
         (/\ calls[s].pc = "done"
          /\ ~calls[s].result.threw
          /\ Len(calls[s].result.env.content) >= 1
          /\ calls[s].result.env.isError \in BOOLEAN)
  /\ [][\A s \in Slots :
          /\ (calls[s].pc = "awaiting" /\ calls'[s] # calls[s]) =>
               (calls'[s].pc = "done" /\ calls'[s].outcome.kind \in {"resolve", "reject"})
          /\ (calls[s].pc = "done" /\ calls'[s] # calls[s]) => calls'[s] = IdleCall]_vars

\* a search_locations invocation was suspended at its request and, the request
\* having resolved with suggestions, has returned them
ReturnedAfterAwaitWitness ==
  \E s \in Slots :
    /\ calls[s].pc = "done"
    /\ calls[s].tool = "search_locations"
    /\ calls[s].outcome.kind = "resolve"
    /\ calls[s].outcome.data.shape = "list"
    /\ Len(calls[s].outcome.data.result) = 2
    /\ ~calls[s].result.env.isError

\* a get_property_details call whose client lookup has settled
LookupSettled(c) ==
  c.pc = "done" /\ c.tool = "get_property_details" /\ c.clientCalls = 1

\* C23 as stated: when the client's lookup rejects, get_property_details returns
\* an envelope with isError set whose text is 'Error retrieving property details: '
\* followed by the Error's message, by 'Unknown error occurred ...' for a value
\* that is not an Error, and by 'Property with ID <id> was not found ...' for a
\* message that contains 'not found'.
LookupRejectionReported ==
  \A s \in Slots :
    LET c == calls[s]
        e == c.outcome.err
        told == IF ~e.isErr
                THEN <<"Unknown error occurred while retrieving property information.">>
                ELSE IF Includes(e.msg, <<NotFound>>)
                THEN <<"Property with ID ">> \o Interp(c.args.f["propertyId"])
                     \o <<" was ", NotFound>>
                ELSE e.msg
    IN  (LookupSettled(c) /\ c.outcome.kind = "reject") =>
          /\ ~c.result.threw
          /\ c.result.env.isError
          /\ Len(Blocks(c)) = 1
          /\ Includes(Blocks(c)[1], <<"Error retrieving property details: ">> \o told)

\* C24 as stated: when the lookup resolves with an empty result list,
\* get_property_details returns the text 'Property with ID <id> was not found',
\* an outcome other than the one it returns when the lookup rejects.
EmptyLookupReportsNotFound ==
  \A s \in Slots :
    LET c == calls[s]
        d == c.outcome.data
    IN  (/\ LookupSettled(c)
         /\ c.outcome.kind = "resolve" /\ d.shape = "list" /\ d.result = <<>>) =>
          /\ ~c.result.threw
          /\ Len(Blocks(c)) = 1
          /\ Includes(Blocks(c)[1], <<"Property with ID ">> \o Interp(c.args.f["propertyId"])
                                     \o <<" was ", NotFound>>)
          /\ \A e \in Failures :
               ~Includes(e.msg, <<NotFound>>) =>
                 c.result # Resume(c, Reject(e))

\* the required parameter of a tool, and its two validation messages
RequiredParameter(tool) == IF tool = "search_locations" THEN "query" ELSE "propertyId"

CannotBeEmpty(tool) ==
  IF tool = "search_locations" THEN <<"Error: Search query cannot be empty.">>
  ELSE <<"Error: Property ID cannot be empty.">>

ParameterRequired(tool) ==
  IF tool = "search_locations"
  THEN <<"Error: Query parameter is required and must be a non-empty string.">>
  ELSE <<"Error: Property ID parameter is required and must be a non-empty string.">>

\* C25 as stated: search_locations and get_property_details reject a required
\* parameter that is the empty string, like one that is whitespace only, with
\* the 'cannot be empty' message, and a missing or non-string one with the
\* 'parameter is required' message.
EmptyStringCannotBeEmpty ==
  \A s \in Slots :
    LET c == calls[s]
        v == c.args.f[RequiredParameter(c.tool)]
    IN  (c.tool \in {"search_locations", "get_property_details"} /\ c.args.present) =>
          /\ (v.t = "string" /\ Trim(v.s) = <<>>) =>
               (c.pc = "done" /\ c.result.env.isError
                /\ Blocks(c) = <<CannotBeEmpty(c.tool)>>)
          /\ v.t # "string" =>
               (c.pc = "done" /\ c.result.env.isError
                /\ Blocks(c) = <<ParameterRequired(c.tool)>>)

\* C26: search_locations and get_property_details hand the client the caller's
\* value with the whitespace at both ends removed, and it is the trimmed value
\* that the validation tests: the client is called exactly when the trimmed
\* query has at least 2 characters, or the trimmed propertyId is all digits.
TrimmedValueForwarded ==
  \A s \in Slots :
    LET c == calls[s]
        v == c.args.f[RequiredParameter(c.tool)]
        accepted == /\ c.args.present /\ v.t = "string"
                    /\ IF c.tool = "search_locations"
                       THEN Len(Trim(v.s)) >= MinQueryLength
                       ELSE IsDigits(Trim(v.s))
    IN  (c.tool \in {"search_locations", "get_property_details"}) =>
          /\ c.clientCalls = (IF accepted THEN 1 ELSE 0)
          /\ accepted =>
               /\ c.clientArg = Str(Trim(v.s))
               /\ (wiring = "real" /\ c.tool = "search_locations") =>
                    c.requests = <<LocationQuery([query |-> Str(Trim(v.s))])>>

\* the query " 77 " went to the client as "77"
PaddedQueryWitness ==
  \E s \in Slots :
    /\ calls[s].tool = "search_locations"
    /\ calls[s].args.f["query"] = Str(<<" ", "7", "7", " ">>)
    /\ calls[s].clientCalls = 1
    /\ calls[s].clientArg = Str(<<"7", "7">>)

\* C27 as stated: a search_properties call answered with a non-empty result list
\* returns exactly two text blocks, the summary with the entries and then a block
\* that begins 'Raw data:' and holds the upstream result.
RawDataBlockFollows ==
  \A s \in Slots :
    LET c == calls[s]
        d == c.outcome.data
    IN  (/\ c.pc = "done"
         /\ c.tool = "search_properties"
         /\ c.outcome.kind = "resolve" /\ d.shape = "list" /\ d.result # <<>>) =>
          /\ ~c.result.threw
          /\ ~c.result.env.isError
          /\ Len(Blocks(c)) = 2
          /\ Head(Blocks(c)[1]) = "Found "
          /\ Blocks(c)[2] # <<>>
          /\ Head(Blocks(c)[2]) = "Raw data:"

\* the message of the Error a client method throws for the cause e of a failed request
WrappedMessage(tool, e) ==
  <<IF tool = "search_properties" THEN "Failed to search properties: "
    ELSE "Failed to search locations: ">>
  \o (IF e.isErr THEN e.msg ELSE <<"Unknown error">>)

\* C28: when the upstream request is rejected with an Error of message m,
\* client.searchForSale rejects with an Error whose message is
\* 'Failed to search properties: ' then m, client.searchLocations with
\* 'Failed to search locations: ' then m, m being 'Unknown error' when the cause
\* is not an Error; the handler receives that one rejection, after a single
\* request and a single client call.
ClientWrapsRejection ==
  \A s \in Slots :
    LET c == calls[s]
        toolPrefix == IF c.tool = "search_properties"
                      THEN "Error searching for properties: "
                      ELSE "Error searching for locations: "
    IN  (/\ wiring = "real"
         /\ c.pc = "done"
         /\ c.tool \in {"search_properties", "search_locations"}
         /\ c.outcome.kind = "reject") =>
          /\ ClientSettle(c.tool, c.outcome)
               = Reject(ErrorOf(WrappedMessage(c.tool, c.outcome.err)))
          /\ c.result
               = Returns(Envelope(<< <<toolPrefix>> \o WrappedMessage(c.tool, c.outcome.err) >>,
                                  TRUE))
          /\ Len(c.requests) = 1
          /\ c.clientCalls = 1

\* a location request rejected with a value that is no Error was reported as
\* 'Failed to search locations: Unknown error'
UnknownErrorWitness ==
  \E s \in Slots :
    /\ wiring = "real"
    /\ calls[s].pc = "done"
    /\ calls[s].tool = "search_locations"
    /\ calls[s].outcome = Reject(NonError(<<"boom">>))
    /\ Includes(Blocks(calls[s])[1], <<"Failed to search locations: ", "Unknown error">>)

\* C29 as stated: in the output of search_properties, a summary that holds
\* '(showing first N)' is followed by exactly N entries, and whenever fewer
\* entries are rendered than the total the summary states, the summary holds
\* '(showing first N)' with N the number of rendered entries; whatever the
\* limit, the upstream totalCount and the length of the result list.
ShownCountMatchesEntries ==
  \A s \in Slots :
    LET c == calls[s]
        d == c.outcome.data
        text == Blocks(c)[1]
        rendered == Count(text, IdMarker)
        phrase == <<ShowingFirst>> \o IntToStr(rendered) \o <<")">>
    IN  (/\ c.pc = "done"
         /\ c.tool = "search_properties"
         /\ c.outcome.kind = "resolve" /\ d.shape = "list" /\ d.result # <<>>) =>
          /\ Count(text, ShowingFirst) > 0 => Includes(text, phrase)
          /\ rendered < d.totalCount => Includes(text, phrase)

\* an invocation that has compiled a query and sent it
Compiled(c, tool) == c.tool = tool /\ Len(c.requests) = 1

RECURSIVE QuotesIn(_)
\* the number of double quotes in the values of a filter list
QuotesIn(filters) ==
  IF filters = <<>> THEN 0
  ELSE Count(Interp(Head(filters).value), Quote) + QuotesIn(Tail(filters))

\* the number of double quotes the template of the search query writes itself:
\* four per filter object, two for the area field
TemplateQuotes(input) ==
  4 * Len(input.filters) + (IF Truthy(input.areaId) THEN 2 ELSE 0)

RECURSIVE ParsePairs(_)
\* the filter objects read back from the text of a filter list: the key, then the
\* value up to the next double quote
ParsePairs(text) ==
  IF Len(text) < 8 \/ text[1] # "{ key: " THEN <<>>
  ELSE LET rest == SubSeq(text, 7, Len(text))
           close == CHOOSE i \in 1..(Len(rest) + 1) :
                      /\ i <= Len(rest) => rest[i] = Quote
                      /\ \A j \in 1..(i - 1) : rest[j] # Quote
           after == SubSeq(rest, close + 2, Len(rest))
       IN  << <<text[3], SubSeq(rest, 1, close - 1)>> >>
           \o ParsePairs(IF after # <<>> /\ Head(after) = ", " THEN Tail(after) ELSE after)

\* the filter list as pairs of key and value text
PairsOf(filters) == [i \in 1..Len(filters) |-> <<filters[i].key, Interp(filters[i].value)>>]

====
